---- MODULE Spec2Model ----
(***************************************************************************)
(* GrPPI stream patterns: the native stream filter (keep / discard) of     *)
(* include/native/stream_filter.h and the OpenMP pipeline of               *)
(* include/omp/pipeline.h, with the execution policy fields they read.     *)
(*                                                                         *)
(* An item is the pair<optional<T>,long> of the source: first is the       *)
(* payload (None when the optional is empty), second is the tag.  The      *)
(* payload type is an integer, as in the samples, so a moved-from value    *)
(* equals the value it was moved from.  Queues are unbounded FIFOs whose   *)
(* pop blocks while the queue is empty.  The threads of one stage run the  *)
(* same lambda and have no identity of their own, so a stage's threads are *)
(* kept as a bag of thread states.                                         *)
(***************************************************************************)
EXTENDS Integers, Sequences, FiniteSets, Bags, TLC

\* ---- bounds ----
MaxLen == 3
MaxDegree == 3
WideLen == 4
WideDegree == 4
LongLen == 5
LongDegree == 3

\* ---- items ----
None == 0
TERMINAL == -1
Item(f, s) == [first |-> f, second |-> s]

VARIABLES
  concurrency_degree_,  \* policy: number of threads
  ordering_,            \* policy: ordered execution
  input,                \* the values generate_op returns before the empty one
  user_pred,            \* the values the caller's predicate_op is true for
  call,                 \* "none", "keep" or "discard": the entry point called
  keep_pred,            \* the values the predicate_op handed to keep is true for
  pc,                   \* position of the thread that called keep
  order,                \* keep line 146: the generator's tag counter
  eos_i,                \* keep line 152: loop counter of the end-of-stream pushes
  generated_queue,
  filtered_queue,
  tasks,                \* keep line 61: bag of filter thread states
  consumer_pc,          \* keep line 84: "none", "pop", "drain" or "done"
  done_threads,         \* keep line 87
  item_buffer,          \* keep line 89
  c_order,              \* keep line 90: the consumer's expected tag
  consumed,             \* the arguments of the consume_op calls, in call order
  eos_pushed,           \* number of (empty, -1) items pushed to filtered_queue
  last_step,            \* what the last consumer step released and consumed
  stages,               \* pipeline: the farm and filter stages, in order
  omp_input,            \* pipeline: the values generate_op returns
  omp_pc,               \* position of the thread that called pipeline
  gen_pc,               \* pipeline line 345: the generator task
  gen_order,            \* pipeline line 347
  queues,               \* queues[s]: input queue of stage s, output of s-1
  tmp_queue,            \* tmp_queue[s] of an ordered filter stage s
  workers,              \* workers[s]: bag of the task states of stage s
  omp_done_threads,     \* done_threads of stage s
  reorder,              \* the reorder task of an ordered filter stage s
  ls_pc,                \* last stage: "none", "pop", "drain" or "done"
  elements,             \* last stage, line 43
  current,              \* last stage, line 44
  omp_consumed,         \* arguments of the last stage's consume_op calls
  eos_pops,             \* per stage: pops that returned an empty payload
  pushbacks,            \* per stage: items pushed back to the input queue
  fwd_count,            \* per stage: (empty, -1) items pushed downstream
  generated_log,        \* keep: every item pushed by lines 149 and 153, in order
  omp_generated_log,    \* pipeline: every item pushed by line 350, in order
  calls,                \* the constructor and mutator calls made on the policy
  raises,               \* which callable of keep throws, and at which call
  terminated,           \* std::terminate has been called
  ff_call,              \* "none", "map", "tbb_map", "reduce" or "map_reduce"
  ff_pc,                \* "idle", "map", "reduce", "final" or "returned"
  combiner,             \* "plus" or "max": the combine_op of the caller
  firsts,               \* the input sequences of map and map_reduce
  first,                \* the sequence reduce reads
  sequence_size,
  owner,                \* parallel_for: the worker that runs each index
  ff_done,              \* the indices whose body has run in this parallel_for
  first_out,            \* the output sequence of map (partial_outs of map_reduce)
  writes,               \* per output position: how often it was assigned
  value,                \* reduce: the partial result of each worker
  merged,               \* reduce: number of partial results combined so far
  result                \* reduce line 229

policyVars == <<concurrency_degree_, ordering_>>
keepVars == <<input, user_pred, call, keep_pred, pc, order, eos_i,
              generated_queue, filtered_queue, tasks, consumer_pc,
              done_threads, item_buffer, c_order, consumed, eos_pushed,
              last_step, generated_log>>
ompVars == <<stages, omp_input, omp_pc, gen_pc, gen_order, queues, tmp_queue,
             workers, omp_done_threads, reorder, ls_pc, elements, current,
             omp_consumed, eos_pops, pushbacks, fwd_count, omp_generated_log>>
logVars == <<calls>>
faultVars == <<raises, terminated>>
ffVars == <<ff_call, ff_pc, combiner, firsts, first, sequence_size, owner, ff_done,
            first_out, writes, value, merged, result>>
vars == <<policyVars, keepVars, ompVars, logVars, faultVars, ffVars>>

\* ---- helpers ----
Range(s) == {s[i] : i \in 1..Len(s)}

RECURSIVE SelectValues(_, _)
\* the subsequence of the values of s that lie in the set P
SelectValues(s, P) ==
  IF s = <<>> THEN <<>>
  ELSE IF Head(s) \in P THEN <<Head(s)>> \o SelectValues(Tail(s), P)
       ELSE SelectValues(Tail(s), P)

RECURSIVE Payloads(_)
\* the payloads of the items of s whose optional is engaged
Payloads(s) ==
  IF s = <<>> THEN <<>>
  ELSE IF Head(s).first # None THEN <<Head(s).first>> \o Payloads(Tail(s))
       ELSE Payloads(Tail(s))

\* mutant of IsEos: every item without a payload counts as an end of stream
IsEosAnyTag(item) == item.first = None

IsEos(item) == item.first = None /\ item.second = TERMINAL

NoStep == [released |-> <<>>, called |-> <<>>]

\* ---- execution policy ----
DegreeValues == 0..MaxDegree
WideDegreeValues == 0..WideDegree

\* parallel_execution_ff(int concurrency_degree, bool order = true)
Construct(degree, ord) ==
  /\ concurrency_degree_ = degree
  /\ ordering_ = ord

set_concurrency_degree(degree) ==
  /\ pc = "idle" /\ omp_pc = "idle"
  /\ concurrency_degree_' = degree
  /\ UNCHANGED <<ordering_, keepVars, ompVars, ffVars, faultVars>>

\* mutant of disable_ordering: the field keeps the value true
disable_ordering_true ==
  /\ pc = "idle" /\ omp_pc = "idle"
  /\ ordering_' = TRUE
  /\ UNCHANGED <<concurrency_degree_, keepVars, ompVars, ffVars, faultVars>>

enable_ordering ==
  /\ pc = "idle" /\ omp_pc = "idle"
  /\ ordering_' = TRUE
  /\ UNCHANGED <<concurrency_degree_, keepVars, ompVars, ffVars, faultVars>>

disable_ordering ==
  /\ pc = "idle" /\ omp_pc = "idle"
  /\ ordering_' = FALSE
  /\ UNCHANGED <<concurrency_degree_, keepVars, ompVars, ffVars, faultVars>>

\* int concurrency_degree() const noexcept
concurrency_degree == concurrency_degree_

\* bool is_ordered() const noexcept
is_ordered == ordering_

\* the number of mutator calls made on one policy object
MaxCalls == 3

\* an entry of calls: the function called and its arguments
Call(op, degree, ord) == [op |-> op, degree |-> degree, order |-> ord]

\* a policy constructed with a degree and an ordering, or with a degree only
\* (bool order = true)
Constructed(degree, ord) ==
  /\ Construct(degree, ord)
  /\ calls = <<Call("construct", degree, ord)>>

ConstructedDefault(degree) ==
  /\ Construct(degree, TRUE)
  /\ calls = <<Call("construct_degree", degree, TRUE)>>

CallSetDegree(degree) ==
  /\ Len(calls) <= MaxCalls
  /\ set_concurrency_degree(degree)
  /\ calls' = Append(calls, Call("set_concurrency_degree", degree, FALSE))

CallEnable ==
  /\ Len(calls) <= MaxCalls
  /\ enable_ordering
  /\ calls' = Append(calls, Call("enable_ordering", 0, TRUE))

CallDisable ==
  /\ Len(calls) <= MaxCalls
  /\ disable_ordering
  /\ calls' = Append(calls, Call("disable_ordering", 0, FALSE))

\* ---- native keep ----
\* generate_op(): the next input value, or the empty optional at the end
generate_op(n) == IF n < Len(input) THEN input[n + 1] ELSE None

predicate_op(v) == v \in keep_pred

\* lines 61-84: the loop creates concurrency_degree()-1 filter threads, then
\* the consumer thread is created; the queues are created empty (lines 57-58)
Spawn(p) ==
  /\ keep_pred' = p
  /\ tasks' = IF 0 < concurrency_degree_ - 1
               THEN [k \in {[pc |-> "pop", item |-> Item(None, TERMINAL)]} |->
                       concurrency_degree_ - 1]
               ELSE EmptyBag
  /\ consumer_pc' = "pop"
  /\ pc' = "generate"

\* keep(ex, generate_op, predicate_op, consume_op), up to line 146
keep ==
  /\ pc = "idle" /\ omp_pc = "idle"
  /\ call' = "keep"
  /\ Spawn(user_pred)
  /\ UNCHANGED <<policyVars, ompVars, ffVars, logVars, faultVars,
                 generated_log, input, user_pred, order, eos_i,
                 generated_queue, filtered_queue, done_threads, item_buffer,
                 c_order, consumed, eos_pushed, last_step>>

\* discard: keep with the lambda [&](auto val) { return !predicate_op(val); }
discard ==
  /\ pc = "idle" /\ omp_pc = "idle"
  /\ call' = "discard"
  /\ Spawn(Range(input) \ user_pred)
  /\ UNCHANGED <<policyVars, ompVars, ffVars, logVars, faultVars,
                 generated_log, input, user_pred, order, eos_i,
                 generated_queue, filtered_queue, done_threads, item_buffer,
                 c_order, consumed, eos_pushed, last_step>>

\* a filter thread in state w moves to state w2
MoveTask(w, w2) == tasks' = (tasks (-) SetToBag({w})) (+) SetToBag({w2})

\* mutant of WorkerPop: the item is read and stays in generated_queue
WorkerPopPeek ==
  /\ generated_queue # <<>>
  /\ \E w \in BagToSet(tasks) :
       /\ w.pc = "pop"
       /\ LET item == Head(generated_queue) IN
            MoveTask(w, [pc |-> IF item.first # None THEN "filter" ELSE "eos",
                         item |-> item])
  /\ generated_queue' = IF Head(generated_queue).first # None
                          THEN generated_queue ELSE Tail(generated_queue)
  /\ UNCHANGED <<policyVars, ompVars, ffVars, logVars, faultVars,
                 generated_log, input, user_pred, call, keep_pred, pc, order,
                 eos_i, filtered_queue, consumer_pc, done_threads, item_buffer,
                 c_order, consumed, eos_pushed, last_step>>

\* lines 67 and 76: item = generated_queue.pop(), then the test of line 69
WorkerPop ==
  /\ generated_queue # <<>>
  /\ \E w \in BagToSet(tasks) :
       /\ w.pc = "pop"
       /\ LET item == Head(generated_queue) IN
            MoveTask(w, [pc |-> IF item.first # None THEN "filter" ELSE "eos",
                         item |-> item])
  /\ generated_queue' = Tail(generated_queue)
  /\ UNCHANGED <<policyVars, ompVars, ffVars, logVars, faultVars,
                 generated_log, input, user_pred, call, keep_pred, pc, order,
                 eos_i, filtered_queue, consumer_pc, done_threads, item_buffer,
                 c_order, consumed, eos_pushed, last_step>>

\* filtered_queue.push(item); eos_pushed counts the pushed items that are
\* end-of-stream items
PushFiltered(item) ==
  /\ filtered_queue' = Append(filtered_queue, item)
  /\ eos_pushed' = IF IsEos(item) THEN eos_pushed + 1 ELSE eos_pushed

\* lines 70-75: push the item, or a hole with the item's tag
WorkerFilter ==
  /\ \E w \in BagToSet(tasks) :
       /\ w.pc = "filter"
       /\ PushFiltered(IF predicate_op(w.item.first) THEN w.item
                       ELSE Item(None, w.item.second))
       /\ MoveTask(w, [pc |-> "pop", item |-> Item(None, TERMINAL)])
  /\ UNCHANGED <<policyVars, ompVars, ffVars, logVars, faultVars,
                 generated_log, input, user_pred, call, keep_pred, pc, order,
                 eos_i, generated_queue, consumer_pc, done_threads, item_buffer,
                 c_order, consumed, last_step>>

\* mutant of WorkerEos: the popped item is pushed as it is, with its own tag
WorkerEosOwnTag ==
  /\ \E w \in BagToSet(tasks) :
       /\ w.pc = "eos"
       /\ PushFiltered(w.item)
       /\ MoveTask(w, [pc |-> "done", item |-> Item(None, TERMINAL)])
  /\ UNCHANGED <<policyVars, ompVars, ffVars, logVars, faultVars,
                 generated_log, input, user_pred, call, keep_pred, pc, order,
                 eos_i, generated_queue, consumer_pc, done_threads, item_buffer,
                 c_order, consumed, last_step>>

\* line 79: filtered_queue.push(make_pair(item.first, -1)), thread ends
WorkerEos ==
  /\ \E w \in BagToSet(tasks) :
       /\ w.pc = "eos"
       /\ PushFiltered(Item(w.item.first, -1))
       /\ MoveTask(w, [pc |-> "done", item |-> Item(None, TERMINAL)])
  /\ UNCHANGED <<policyVars, ompVars, ffVars, logVars, faultVars,
                 generated_log, input, user_pred, call, keep_pred, pc, order,
                 eos_i, generated_queue, consumer_pc, done_threads, item_buffer,
                 c_order, consumed, last_step>>

RECURSIVE remove_if_keep(_, _, _, _)
\* mutant of remove_if: a matching element advances order and stays
remove_if_keep(buf, i, kept, ord) ==
  IF i > Len(buf) THEN [kept |-> kept, order |-> ord]
  ELSE IF buf[i].second = ord
         THEN remove_if_keep(buf, i + 1, Append(kept, buf[i]), ord + 1)
         ELSE remove_if_keep(buf, i + 1, Append(kept, buf[i]), ord)

RECURSIVE remove_if(_, _, _, _)
\* std::remove_if with the predicate of lines 117-121, which advances ord on
\* every match: the elements that do not match are moved to the front in their
\* order; the result is them and the value of order after the scan
remove_if(buf, i, kept, ord) ==
  IF i > Len(buf) THEN [kept |-> kept, order |-> ord]
  ELSE IF buf[i].second = ord
         THEN remove_if(buf, i + 1, kept, ord + 1)
         ELSE remove_if(buf, i + 1, Append(kept, buf[i]), ord)

\* [itrm, end(item_buffer)) after remove_if: the positions behind the moved
\* elements still hold what they held before the call
TailAfterRemove(buf, nkept) == SubSeq(buf, nkept + 1, Len(buf))

\* lines 116-128: the scan of the buffer after an item was handled
BufferScan(buf, ord) ==
  LET r == remove_if(buf, 1, <<>>, ord) IN
    [buffer |-> r.kept,
     order |-> r.order,
     called |-> Payloads(TailAfterRemove(buf, Len(r.kept))),
     released |-> SelectSeq(buf, LAMBDA it :
                    it.second >= ord /\ it.second < r.order)]

\* lines 93-131: one pop of the consumer and what it does with the item
ConsumerPop ==
  /\ consumer_pc = "pop"
  /\ filtered_queue # <<>>
  /\ filtered_queue' = Tail(filtered_queue)
  /\ LET item == Head(filtered_queue) IN
       IF done_threads = concurrency_degree_ - 1
         THEN \* line 94: the loop is not entered
              /\ consumer_pc' = "drain"
              /\ last_step' = NoStep
              /\ UNCHANGED <<done_threads, item_buffer, c_order, consumed>>
         ELSE IF IsEos(item) /\ done_threads + 1 = concurrency_degree_ - 1
           THEN \* lines 97-98: the last end of stream, break
                /\ done_threads' = done_threads + 1
                /\ consumer_pc' = "drain"
                /\ last_step' = NoStep
                /\ UNCHANGED <<item_buffer, c_order, consumed>>
           ELSE LET direct == ~IsEos(item) /\ c_order = item.second
                    ord1 == IF direct THEN c_order + 1 ELSE c_order
                    buf1 == IF IsEos(item) \/ direct THEN item_buffer
                            ELSE Append(item_buffer, item)
                    call1 == IF direct THEN Payloads(<<item>>) ELSE <<>>
                    scan == BufferScan(buf1, ord1)
                IN /\ done_threads' = IF IsEos(item) THEN done_threads + 1
                                      ELSE done_threads
                   /\ item_buffer' = scan.buffer
                   /\ c_order' = scan.order
                   /\ consumed' = consumed \o call1 \o scan.called
                   /\ last_step' =
                        [released |-> (IF direct THEN <<item>> ELSE <<>>)
                                         \o scan.released,
                         called |-> call1 \o scan.called]
                   /\ consumer_pc' = "pop"
  /\ UNCHANGED <<policyVars, ompVars, ffVars, logVars, faultVars,
                 generated_log, input, user_pred, call, keep_pred, pc, order,
                 eos_i, generated_queue, tasks, eos_pushed>>

RECURSIVE find_if(_, _, _)
\* std::find_if from position i: the first position whose tag is ord, or
\* Len(buf) + 1 for end(item_buffer)
find_if(buf, i, ord) ==
  IF i > Len(buf) THEN i
  ELSE IF buf[i].second = ord THEN i ELSE find_if(buf, i + 1, ord)

\* item_buffer.erase(it_find)
erase(buf, i) == SubSeq(buf, 1, i - 1) \o SubSeq(buf, i + 1, Len(buf))

\* mutant of DrainLoop: the loop is left after the first release
DrainLoopOnce(buf, ord, called, released) ==
  LET it_find == find_if(buf, 1, ord) IN
    IF it_find = Len(buf) + 1
      THEN [buffer |-> buf, order |-> ord, called |-> called,
            released |-> released]
      ELSE [buffer |-> erase(buf, it_find), order |-> ord + 1,
            called |-> called \o Payloads(<<buf[it_find]>>),
            released |-> Append(released, buf[it_find])]

RECURSIVE DrainLoop(_, _, _, _)
\* lines 133-142
DrainLoop(buf, ord, called, released) ==
  LET it_find == find_if(buf, 1, ord) IN
    IF it_find = Len(buf) + 1
      THEN [buffer |-> buf, order |-> ord, called |-> called,
            released |-> released]
      ELSE DrainLoop(erase(buf, it_find), ord + 1,
                     called \o Payloads(<<buf[it_find]>>),
                     Append(released, buf[it_find]))

ConsumerDrain ==
  /\ consumer_pc = "drain"
  /\ LET d == DrainLoop(item_buffer, c_order, <<>>, <<>>) IN
       /\ item_buffer' = d.buffer
       /\ c_order' = d.order
       /\ consumed' = consumed \o d.called
       /\ last_step' = [released |-> d.released, called |-> d.called]
  /\ consumer_pc' = "done"
  /\ UNCHANGED <<policyVars, ompVars, ffVars, logVars, faultVars,
                 generated_log, input, user_pred, call, keep_pred, pc, order,
                 eos_i, generated_queue, filtered_queue, tasks, done_threads,
                 eos_pushed>>

\* lines 148-151: one round of the generator loop
Generate ==
  /\ pc = "generate"
  /\ LET item == generate_op(order) IN
       /\ generated_queue' = Append(generated_queue, Item(item, order))
       /\ generated_log' = Append(generated_log, Item(item, order))
       /\ pc' = IF item # None THEN "generate"
                ELSE IF 0 < concurrency_degree_ - 1 THEN "eos" ELSE "join"
  /\ order' = order + 1
  /\ UNCHANGED <<policyVars, ompVars, ffVars, logVars, faultVars,
                 input, user_pred, call, keep_pred, eos_i,
                 filtered_queue, tasks, consumer_pc, done_threads, item_buffer,
                 c_order, consumed, eos_pushed, last_step>>

\* mutant of PushEos: the loop runs concurrency_degree times
PushEosOnceMore ==
  /\ pc = "eos"
  /\ generated_queue' = Append(generated_queue, Item(None, -1))
  /\ generated_log' = Append(generated_log, Item(None, -1))
  /\ eos_i' = eos_i + 1
  /\ pc' = IF eos_i + 1 < concurrency_degree_ THEN "eos" ELSE "join"
  /\ UNCHANGED <<policyVars, ompVars, ffVars, logVars, faultVars,
                 input, user_pred, call, keep_pred, order,
                 filtered_queue, tasks, consumer_pc, done_threads, item_buffer,
                 c_order, consumed, eos_pushed, last_step>>

\* lines 152-154: one round of the loop that pushes the end-of-stream items
PushEos ==
  /\ pc = "eos"
  /\ generated_queue' = Append(generated_queue, Item(None, -1))
  /\ generated_log' = Append(generated_log, Item(None, -1))
  /\ eos_i' = eos_i + 1
  /\ pc' = IF eos_i + 1 < concurrency_degree_ - 1 THEN "eos" ELSE "join"
  /\ UNCHANGED <<policyVars, ompVars, ffVars, logVars, faultVars,
                 input, user_pred, call, keep_pred, order,
                 filtered_queue, tasks, consumer_pc, done_threads, item_buffer,
                 c_order, consumed, eos_pushed, last_step>>

\* lines 159-160: every thread joined, keep returns
Join ==
  /\ pc = "join"
  /\ \A w \in BagToSet(tasks) : w.pc = "done"
  /\ consumer_pc = "done"
  /\ pc' = "returned"
  /\ UNCHANGED <<policyVars, ompVars, ffVars, logVars, faultVars,
                 generated_log, input, user_pred, call, keep_pred, order, eos_i,
                 generated_queue, filtered_queue, tasks, consumer_pc,
                 done_threads, item_buffer, c_order, consumed, eos_pushed,
                 last_step>>

\* ---- native keep: a callable that throws ----
\* keep has no try block.  An exception that leaves the function of a
\* std::thread (lines 63-80, 84-143) calls std::terminate; an exception of
\* generate_op (line 148) leaves keep while consumer, and every element of
\* tasks, is a joinable std::thread, whose destructor calls std::terminate.
\* raises.op names the callable that throws; raises.at is the number of the
\* generate_op call that throws, or the value predicate_op or consume_op
\* throws for.

\* line 148: this call of generate_op throws
GenerateThrows ==
  raises.op = "generate_op" /\ raises.at = order

\* lines 105, 125, 138: one of these consume_op calls throws
ConsumeThrows(args) ==
  raises.op = "consume_op" /\ raises.at \in Range(args)

\* the arguments of the consume_op calls of the consumer's next step
\* (lines 93-131 for a pop, lines 133-142 for the final loop)
ConsumerCalls ==
  IF consumer_pc = "pop" /\ filtered_queue # <<>>
    THEN LET item == Head(filtered_queue) IN
      IF \/ done_threads = concurrency_degree_ - 1
         \/ IsEos(item) /\ done_threads + 1 = concurrency_degree_ - 1
        THEN <<>>
        ELSE LET direct == ~IsEos(item) /\ c_order = item.second
                 ord1 == IF direct THEN c_order + 1 ELSE c_order
                 buf1 == IF IsEos(item) \/ direct THEN item_buffer
                         ELSE Append(item_buffer, item)
                 call1 == IF direct THEN Payloads(<<item>>) ELSE <<>>
             IN call1 \o BufferScan(buf1, ord1).called
    ELSE IF consumer_pc = "drain"
      THEN DrainLoop(item_buffer, c_order, <<>>, <<>>).called
      ELSE <<>>

RECURSIVE UpTo(_, _)
\* the elements of args up to and including the first v
UpTo(args, v) ==
  IF args = <<>> THEN <<>>
  ELSE IF Head(args) = v THEN <<v>>
       ELSE <<Head(args)>> \o UpTo(Tail(args), v)

\* generate_op throws in the thread that called keep
GenerateRaises ==
  /\ ~terminated
  /\ pc = "generate"
  /\ GenerateThrows
  /\ terminated' = TRUE
  /\ UNCHANGED <<policyVars, keepVars, ompVars, ffVars, logVars, raises>>

\* predicate_op throws in a filter thread, line 70
PredicateRaises ==
  /\ ~terminated
  /\ raises.op = "predicate_op"
  /\ \E w \in BagToSet(tasks) : w.pc = "filter" /\ w.item.first = raises.at
  /\ terminated' = TRUE
  /\ UNCHANGED <<policyVars, keepVars, ompVars, ffVars, logVars, raises>>

\* consume_op throws in the consumer thread
ConsumeRaises ==
  /\ ~terminated
  /\ ConsumeThrows(ConsumerCalls)
  /\ consumed' = consumed \o UpTo(ConsumerCalls, raises.at)
  /\ terminated' = TRUE
  /\ UNCHANGED <<policyVars, ompVars, ffVars, logVars, raises, generated_log,
                 input, user_pred, call, keep_pred, pc, order, eos_i,
                 generated_queue, filtered_queue, tasks, consumer_pc,
                 done_threads, item_buffer, c_order, eos_pushed, last_step>>

\* the steps of keep while no callable has thrown
ThrowStep ==
  \/ ~terminated /\ keep
  \/ ~terminated /\ discard
  \/ ~terminated /\ WorkerPop
  \/ /\ ~terminated
     /\ WorkerFilter
     /\ ~(/\ raises.op = "predicate_op"
          /\ input[filtered_queue'[Len(filtered_queue')].second + 1] = raises.at)
  \/ ~terminated /\ WorkerEos
  \/ ~terminated /\ ~ConsumeThrows(ConsumerCalls) /\ ConsumerPop
  \/ ~terminated /\ ~ConsumeThrows(ConsumerCalls) /\ ConsumerDrain
  \/ ~terminated /\ ~GenerateThrows /\ Generate
  \/ ~terminated /\ PushEos
  \/ ~terminated /\ Join
  \/ GenerateRaises
  \/ PredicateRaises
  \/ ConsumeRaises

\* ---- OpenMP pipeline ----
MaxOmpLen == 3
MaxOmpDegree == 2
MaxChainLen == 2
MaxStages == 2

\* farm_obj.task: the transformer of a farm stage
Transform(x) == 2 * x

FarmStage(degree) == [kind |-> "farm", degree |-> degree, pred |-> {}]
FilterStage(degree, p) == [kind |-> "filter", degree |-> degree, pred |-> p]

NStages == Len(stages)
StageIds == 1..NStages
IdleTask == [pc |-> "pop", item |-> Item(None, TERMINAL)]
IdleReorder == [pc |-> "none", elements |-> <<>>, current |-> 0, order |-> 0,
                item |-> Item(None, TERMINAL)]

\* the generator of pipeline(): the next input value, or the empty optional
omp_generate_op(n) == IF n < Len(omp_input) THEN omp_input[n + 1] ELSE None

\* lines 339-355 and the task creation of every pipeline_impl call: the
\* generator task, the tasks of each stage and the reorder task of each
\* ordered filter stage are created; the last stage runs in the calling thread
pipeline ==
  /\ pc = "idle" /\ omp_pc = "idle"
  /\ omp_pc' = "running"
  /\ gen_pc' = "run"
  /\ workers' = [s \in StageIds |-> [k \in {IdleTask} |-> stages[s].degree]]
  /\ reorder' = [s \in StageIds |->
                   IF stages[s].kind = "filter" /\ ordering_
                     THEN [IdleReorder EXCEPT !.pc = "pop"] ELSE IdleReorder]
  /\ ls_pc' = "pop"
  /\ UNCHANGED <<policyVars, keepVars, ffVars, logVars, faultVars,
                 omp_generated_log, stages, omp_input, gen_order, queues,
                 tmp_queue, omp_done_threads, elements, current, omp_consumed,
                 eos_pops, pushbacks, fwd_count>>

\* mutant of OmpGenerate: every item is pushed with the tag 0
OmpGenerateSameTag ==
  /\ gen_pc = "run"
  /\ LET item == omp_generate_op(gen_order) IN
       /\ queues' = [queues EXCEPT ![1] = Append(@, Item(item, 0))]
       /\ omp_generated_log' = Append(omp_generated_log, Item(item, 0))
       /\ gen_pc' = IF item # None THEN "run" ELSE "done"
  /\ gen_order' = gen_order + 1
  /\ UNCHANGED <<policyVars, keepVars, ffVars, logVars, faultVars,
                 stages, omp_input, omp_pc, tmp_queue,
                 workers, omp_done_threads, reorder, ls_pc, elements, current,
                 omp_consumed, eos_pops, pushbacks, fwd_count>>

\* lines 348-352: one round of the generator task
OmpGenerate ==
  /\ gen_pc = "run"
  /\ LET item == omp_generate_op(gen_order) IN
       /\ queues' = [queues EXCEPT ![1] = Append(@, Item(item, gen_order))]
       /\ omp_generated_log' = Append(omp_generated_log, Item(item, gen_order))
       /\ gen_pc' = IF item # None THEN "run" ELSE "done"
  /\ gen_order' = gen_order + 1
  /\ UNCHANGED <<policyVars, keepVars, ffVars, logVars, faultVars,
                 stages, omp_input, omp_pc, tmp_queue,
                 workers, omp_done_threads, reorder, ls_pc, elements, current,
                 omp_consumed, eos_pops, pushbacks, fwd_count>>

\* a task of stage s in state w moves to state w2
MoveWorker(s, w, w2) ==
  workers' = [workers EXCEPT ![s] = (@ (-) SetToBag({w})) (+) SetToBag({w2})]

\* lines 262/266 (farm), 112/120 and 194/199 (filter): item = input_queue.pop()
\* and the test of the while condition; after is where a task goes when the
\* payload is empty
StagePop(s, kind, after) ==
  /\ stages[s].kind = kind
  /\ queues[s] # <<>>
  /\ \E w \in BagToSet(workers[s]) :
       /\ w.pc = "pop"
       /\ LET item == Head(queues[s]) IN
            /\ MoveWorker(s, w, [pc |-> IF item.first # None THEN "apply"
                                        ELSE after,
                                 item |-> item])
            /\ eos_pops' = [eos_pops EXCEPT ![s] =
                              IF item.first = None THEN @ + 1 ELSE @]
  /\ queues' = [queues EXCEPT ![s] = Tail(@)]
  /\ UNCHANGED <<policyVars, keepVars, ffVars, logVars, faultVars,
                 omp_generated_log, stages, omp_input, omp_pc, gen_pc,
                 gen_order, tmp_queue, omp_done_threads, reorder, ls_pc,
                 elements, current, omp_consumed, pushbacks, fwd_count>>

\* farm task, lines 262-263 and 266
FarmPop(s) == StagePop(s, "farm", "pushback")

\* farm task, lines 264-265
FarmApply(s) ==
  /\ stages[s].kind = "farm"
  /\ \E w \in BagToSet(workers[s]) :
       /\ w.pc = "apply"
       /\ queues' = [queues EXCEPT ![s + 1] =
            Append(@, Item(Transform(w.item.first), w.item.second))]
       /\ MoveWorker(s, w, IdleTask)
  /\ UNCHANGED <<policyVars, keepVars, ffVars, logVars, faultVars,
                 omp_generated_log, stages, omp_input, omp_pc, gen_pc,
                 gen_order, tmp_queue, omp_done_threads, reorder, ls_pc,
                 elements, current, omp_consumed, eos_pops, pushbacks,
                 fwd_count>>

\* input_queue.push(item): farm line 268, filter lines 127 and 206; next is
\* where the task goes afterwards
StagePushBack(s, kind, next) ==
  /\ stages[s].kind = kind
  /\ \E w \in BagToSet(workers[s]) :
       /\ w.pc = "pushback"
       /\ queues' = [queues EXCEPT ![s] = Append(@, w.item)]
       /\ MoveWorker(s, w, [w EXCEPT !.pc = next])
  /\ pushbacks' = [pushbacks EXCEPT ![s] = @ + 1]
  /\ UNCHANGED <<policyVars, keepVars, ffVars, logVars, faultVars,
                 omp_generated_log, stages, omp_input, omp_pc, gen_pc,
                 gen_order, tmp_queue, omp_done_threads, reorder, ls_pc,
                 elements, current, omp_consumed, eos_pops, fwd_count>>

\* done_threads++: farm line 269, filter lines 122 and 201
StageInc(s, kind) ==
  /\ stages[s].kind = kind
  /\ \E w \in BagToSet(workers[s]) :
       /\ w.pc = "inc"
       /\ MoveWorker(s, w, [w EXCEPT !.pc = "test"])
  /\ omp_done_threads' = [omp_done_threads EXCEPT ![s] = @ + 1]
  /\ UNCHANGED <<policyVars, keepVars, ffVars, logVars, faultVars,
                 omp_generated_log, stages, omp_input, omp_pc, gen_pc,
                 gen_order, queues, tmp_queue, reorder, ls_pc, elements,
                 current, omp_consumed, eos_pops, pushbacks, fwd_count>>

\* the read done_threads==concurrency_degree(): farm line 270, filter lines
\* 123 and 202; otherwise is where the task goes when they differ
StageTest(s, kind, otherwise) ==
  /\ stages[s].kind = kind
  /\ \E w \in BagToSet(workers[s]) :
       /\ w.pc = "test"
       /\ MoveWorker(s, w, [w EXCEPT !.pc =
            IF omp_done_threads[s] = stages[s].degree THEN "fwd"
            ELSE otherwise])
  /\ UNCHANGED <<policyVars, keepVars, ffVars, logVars, faultVars,
                 omp_generated_log, stages, omp_input, omp_pc, gen_pc,
                 gen_order, queues, tmp_queue, omp_done_threads, reorder,
                 ls_pc, elements, current, omp_consumed, eos_pops, pushbacks,
                 fwd_count>>

\* mutant of FarmPushBack: the end item is not pushed back
FarmPushBackDrop(s) ==
  /\ stages[s].kind = "farm"
  /\ \E w \in BagToSet(workers[s]) :
       /\ w.pc = "pushback"
       /\ MoveWorker(s, w, [w EXCEPT !.pc = "inc"])
  /\ pushbacks' = [pushbacks EXCEPT ![s] = @ + 1]
  /\ UNCHANGED <<policyVars, keepVars, ffVars, logVars, faultVars,
                 omp_generated_log, stages, omp_input, omp_pc, gen_pc,
                 gen_order, queues, tmp_queue, omp_done_threads, reorder,
                 ls_pc, elements, current, omp_consumed, eos_pops, fwd_count>>

\* mutant of FarmTest: the sentinel is pushed without the comparison
FarmTestAlways(s) == StageTest(s, "farm", "fwd")

\* mutant of FilterPushBack: no else, the task goes on to push a sentinel
FilterPushBackFwd(s) == StagePushBack(s, "filter", "fwd")

FarmPushBack(s) == StagePushBack(s, "farm", "inc")
FarmInc(s) == StageInc(s, "farm")
FarmTest(s) == StageTest(s, "farm", "done")

\* farm task, line 271
FarmFwd(s) ==
  /\ stages[s].kind = "farm"
  /\ \E w \in BagToSet(workers[s]) :
       /\ w.pc = "fwd"
       /\ MoveWorker(s, w, [w EXCEPT !.pc = "done"])
  /\ queues' = [queues EXCEPT ![s + 1] = Append(@, Item(None, -1))]
  /\ fwd_count' = [fwd_count EXCEPT ![s] = @ + 1]
  /\ UNCHANGED <<policyVars, keepVars, ffVars, logVars, faultVars,
                 omp_generated_log, stages, omp_input, omp_pc, gen_pc,
                 gen_order, tmp_queue, omp_done_threads, reorder, ls_pc,
                 elements, current, omp_consumed, eos_pops, pushbacks>>

\* filter task, lines 112-113/120 and 194-195/199
FilterPop(s) == StagePop(s, "filter", "inc")

\* filter task: lines 114-119 when ordered (the item or a hole goes to
\* tmp_queue), lines 196-198 when not (the item goes to output_queue or nowhere)
FilterApply(s) ==
  /\ stages[s].kind = "filter"
  /\ \E w \in BagToSet(workers[s]) :
       /\ w.pc = "apply"
       /\ LET pass == w.item.first \in stages[s].pred IN
            IF ordering_
              THEN /\ tmp_queue' = [tmp_queue EXCEPT ![s] = Append(@,
                         IF pass THEN w.item ELSE Item(None, w.item.second))]
                   /\ UNCHANGED queues
              ELSE /\ queues' = [queues EXCEPT ![s + 1] =
                         IF pass THEN Append(@, w.item) ELSE @]
                   /\ UNCHANGED tmp_queue
       /\ MoveWorker(s, w, IdleTask)
  /\ UNCHANGED <<policyVars, keepVars, ffVars, logVars, faultVars,
                 omp_generated_log, stages, omp_input, omp_pc, gen_pc,
                 gen_order, omp_done_threads, reorder, ls_pc, elements,
                 current, omp_consumed, eos_pops, pushbacks, fwd_count>>

FilterInc(s) == StageInc(s, "filter")
\* mutant of FilterTest: the end item is pushed without the comparison
FilterTestAlways(s) == StageTest(s, "filter", "fwd")

FilterTest(s) == StageTest(s, "filter", "pushback")
FilterPushBack(s) == StagePushBack(s, "filter", "done")

\* filter task, lines 124 and 203
FilterFwd(s) ==
  /\ stages[s].kind = "filter"
  /\ \E w \in BagToSet(workers[s]) :
       /\ w.pc = "fwd"
       /\ MoveWorker(s, w, [w EXCEPT !.pc = "done"])
  /\ IF ordering_
       THEN /\ tmp_queue' = [tmp_queue EXCEPT ![s] = Append(@, Item(None, -1))]
            /\ UNCHANGED queues
       ELSE /\ queues' = [queues EXCEPT ![s + 1] = Append(@, Item(None, -1))]
            /\ UNCHANGED tmp_queue
  /\ fwd_count' = [fwd_count EXCEPT ![s] = @ + 1]
  /\ UNCHANGED <<policyVars, keepVars, ffVars, logVars, faultVars,
                 omp_generated_log, stages, omp_input, omp_pc, gen_pc,
                 gen_order, omp_done_threads, reorder, ls_pc, elements,
                 current, omp_consumed, eos_pops, pushbacks>>

\* a stage that is a plain callable: one task
TransformerStage == [kind |-> "transformer", degree |-> 1, pred |-> {}]

\* transformer task, lines 296-297 and 300
TransformerPop(s) == StagePop(s, "transformer", "fwd")

\* mutant of TransformerApply: the result is pushed with the tag 0
TransformerApplyUntagged(s) ==
  /\ stages[s].kind = "transformer"
  /\ \E w \in BagToSet(workers[s]) :
       /\ w.pc = "apply"
       /\ queues' = [queues EXCEPT ![s + 1] =
            Append(@, Item(Transform(w.item.first), 0))]
       /\ MoveWorker(s, w, IdleTask)
  /\ UNCHANGED <<policyVars, keepVars, ffVars, logVars, faultVars,
                 omp_generated_log, stages, omp_input, omp_pc, gen_pc,
                 gen_order, tmp_queue, omp_done_threads, reorder, ls_pc,
                 elements, current, omp_consumed, eos_pops, pushbacks,
                 fwd_count>>

\* transformer task, lines 298-299
TransformerApply(s) ==
  /\ stages[s].kind = "transformer"
  /\ \E w \in BagToSet(workers[s]) :
       /\ w.pc = "apply"
       /\ queues' = [queues EXCEPT ![s + 1] =
            Append(@, Item(Transform(w.item.first), w.item.second))]
       /\ MoveWorker(s, w, IdleTask)
  /\ UNCHANGED <<policyVars, keepVars, ffVars, logVars, faultVars,
                 omp_generated_log, stages, omp_input, omp_pc, gen_pc,
                 gen_order, tmp_queue, omp_done_threads, reorder, ls_pc,
                 elements, current, omp_consumed, eos_pops, pushbacks,
                 fwd_count>>

\* transformer task, line 302
TransformerFwd(s) ==
  /\ stages[s].kind = "transformer"
  /\ \E w \in BagToSet(workers[s]) :
       /\ w.pc = "fwd"
       /\ MoveWorker(s, w, [w EXCEPT !.pc = "done"])
  /\ queues' = [queues EXCEPT ![s + 1] = Append(@, Item(None, -1))]
  /\ fwd_count' = [fwd_count EXCEPT ![s] = @ + 1]
  /\ UNCHANGED <<policyVars, keepVars, ffVars, logVars, faultVars,
                 omp_generated_log, stages, omp_input, omp_pc, gen_pc,
                 gen_order, tmp_queue, omp_done_threads, reorder, ls_pc,
                 elements, current, omp_consumed, eos_pops, pushbacks>>

\* mutant of ScanOnce: the first element is taken whatever its tag
ScanOnceFirst(buf, cur) ==
  IF Len(buf) = 0
    THEN [found |-> FALSE, elements |-> buf, item |-> Item(None, TERMINAL)]
    ELSE [found |-> TRUE, elements |-> Tail(buf), item |-> Head(buf)]

\* the for loops of lines 54-61, 65-72, 150-159 and 163-172: the first element
\* whose tag is cur is taken out of the buffer, at most one per pass
ScanOnce(buf, cur) ==
  LET it == find_if(buf, 1, cur) IN
    IF it = Len(buf) + 1
      THEN [found |-> FALSE, elements |-> buf, item |-> Item(None, TERMINAL)]
      ELSE [found |-> TRUE, elements |-> erase(buf, it), item |-> buf[it]]

\* mutant of Emit: a hole is pushed too
EmitHoles(out, item, ord) == Append(out, Item(item.first, ord))

\* reorder task: what one item, when its tag is due, adds to output_queue
\* (lines 142-144, 152-154, 165-167): nothing for a hole
Emit(out, item, ord) ==
  IF item.first # None THEN Append(out, Item(item.first, ord)) ELSE out

\* reorder task of an ordered filter stage, lines 138-161: one pop
ReorderPop(s) ==
  /\ reorder[s].pc = "pop"
  /\ tmp_queue[s] # <<>>
  /\ tmp_queue' = [tmp_queue EXCEPT ![s] = Tail(@)]
  /\ LET item == Head(tmp_queue[s])
         r == reorder[s] IN
       IF IsEos(item)
         THEN /\ reorder' = [reorder EXCEPT ![s] =
                   [r EXCEPT !.pc = "drain", !.item = item]]
              /\ UNCHANGED queues
         ELSE LET direct == item.second = r.current
                  out1 == IF direct THEN Emit(<<>>, item, r.order) ELSE <<>>
                  cur1 == IF direct THEN r.current + 1 ELSE r.current
                  buf1 == IF direct THEN r.elements
                          ELSE Append(r.elements, item)
                  scan == ScanOnce(buf1, cur1)
                  out2 == IF scan.found
                            THEN Emit(out1, scan.item, r.order + Len(out1))
                            ELSE out1
              IN /\ reorder' = [reorder EXCEPT ![s] =
                      [r EXCEPT !.elements = scan.elements,
                                !.current = IF scan.found THEN cur1 + 1
                                            ELSE cur1,
                                !.order = r.order + Len(out2)]]
                 /\ queues' = [queues EXCEPT ![s + 1] = @ \o out2]
  /\ UNCHANGED <<policyVars, keepVars, ffVars, logVars, faultVars,
                 omp_generated_log, stages, omp_input, omp_pc, gen_pc,
                 gen_order, workers, omp_done_threads, ls_pc, elements,
                 current, omp_consumed, eos_pops, pushbacks, fwd_count>>

RECURSIVE ReorderDrainLoop(_, _, _, _)
\* lines 162-173: the loop ends when elements is empty; it cannot end while
\* elements holds only tags other than current
ReorderDrainLoop(buf, cur, ord, out) ==
  IF Len(buf) = 0
    THEN [ends |-> TRUE, elements |-> buf, current |-> cur, order |-> ord,
          out |-> out]
    ELSE LET scan == ScanOnce(buf, cur) IN
      IF ~scan.found
        THEN [ends |-> FALSE, elements |-> buf, current |-> cur,
              order |-> ord, out |-> out]
        ELSE LET out2 == Emit(out, scan.item, ord) IN
          ReorderDrainLoop(scan.elements, cur + 1,
                           ord + (Len(out2) - Len(out)), out2)

\* reorder task, lines 162-174: the drain loop and the push of the sentinel
ReorderDrain(s) ==
  /\ reorder[s].pc = "drain"
  /\ LET r == reorder[s]
         d == ReorderDrainLoop(r.elements, r.current, r.order, <<>>) IN
       /\ d.ends
       /\ reorder' = [reorder EXCEPT ![s] =
            [r EXCEPT !.pc = "done", !.elements = d.elements,
                      !.current = d.current, !.order = d.order]]
       /\ queues' = [queues EXCEPT ![s + 1] = (@ \o d.out) \o <<r.item>>]
  /\ UNCHANGED <<policyVars, keepVars, ffVars, logVars, faultVars,
                 omp_generated_log, stages, omp_input, omp_pc, gen_pc,
                 gen_order, tmp_queue, workers, omp_done_threads, ls_pc,
                 elements, current, omp_consumed, eos_pops, pushbacks,
                 fwd_count>>

\* last stage, ordered, lines 45-63: one pop
LastPopOrdered ==
  /\ ls_pc = "pop"
  /\ ordering_
  /\ queues[NStages + 1] # <<>>
  /\ queues' = [queues EXCEPT ![NStages + 1] = Tail(@)]
  /\ LET item == Head(queues[NStages + 1]) IN
       IF item.first = None
         THEN /\ ls_pc' = "drain"
              /\ UNCHANGED <<elements, current, omp_consumed>>
         ELSE LET direct == current = item.second
                  cur1 == IF direct THEN current + 1 ELSE current
                  buf1 == IF direct THEN elements ELSE Append(elements, item)
                  call1 == IF direct THEN <<item.first>> ELSE <<>>
                  scan == ScanOnce(buf1, cur1)
              IN /\ elements' = scan.elements
                 /\ current' = IF scan.found THEN cur1 + 1 ELSE cur1
                 /\ omp_consumed' = omp_consumed \o call1 \o
                      (IF scan.found THEN <<scan.item.first>> ELSE <<>>)
                 /\ ls_pc' = "pop"
  /\ UNCHANGED <<policyVars, keepVars, ffVars, logVars, faultVars,
                 omp_generated_log, stages, omp_input, omp_pc, gen_pc,
                 gen_order, tmp_queue, workers, omp_done_threads, reorder,
                 eos_pops, pushbacks, fwd_count>>

RECURSIVE LastDrainLoop(_, _, _)
\* lines 64-73
LastDrainLoop(buf, cur, called) ==
  IF Len(buf) = 0
    THEN [ends |-> TRUE, elements |-> buf, current |-> cur, called |-> called]
    ELSE LET scan == ScanOnce(buf, cur) IN
      IF ~scan.found
        THEN [ends |-> FALSE, elements |-> buf, current |-> cur,
              called |-> called]
        ELSE LastDrainLoop(scan.elements, cur + 1,
                           Append(called, scan.item.first))

\* last stage, ordered, lines 64-74
LastDrain ==
  /\ ls_pc = "drain"
  /\ LET d == LastDrainLoop(elements, current, <<>>) IN
       /\ d.ends
       /\ elements' = d.elements
       /\ current' = d.current
       /\ omp_consumed' = omp_consumed \o d.called
  /\ ls_pc' = "done"
  /\ UNCHANGED <<policyVars, keepVars, ffVars, logVars, faultVars,
                 omp_generated_log, stages, omp_input, omp_pc, gen_pc,
                 gen_order, queues, tmp_queue, workers, omp_done_threads,
                 reorder, eos_pops, pushbacks, fwd_count>>

\* last stage, not ordered, lines 76-80: one pop
LastPopUnordered ==
  /\ ls_pc = "pop"
  /\ ~ordering_
  /\ queues[NStages + 1] # <<>>
  /\ queues' = [queues EXCEPT ![NStages + 1] = Tail(@)]
  /\ LET item == Head(queues[NStages + 1]) IN
       IF item.first = None
         THEN /\ ls_pc' = "done"
              /\ UNCHANGED omp_consumed
         ELSE /\ ls_pc' = "pop"
              /\ omp_consumed' = Append(omp_consumed, item.first)
  /\ UNCHANGED <<policyVars, keepVars, ffVars, logVars, faultVars,
                 omp_generated_log, stages, omp_input, omp_pc, gen_pc,
                 gen_order, tmp_queue, workers, omp_done_threads, reorder,
                 elements, current, eos_pops, pushbacks, fwd_count>>

\* every task has ended (the taskwait of lines 178, 212, 276 and 356) and the
\* last stage has returned: pipeline returns
OmpReturn ==
  /\ omp_pc = "running"
  /\ gen_pc = "done"
  /\ ls_pc = "done"
  /\ \A s \in StageIds :
       /\ \A w \in BagToSet(workers[s]) : w.pc = "done"
       /\ reorder[s].pc \in {"none", "done"}
  /\ omp_pc' = "returned"
  /\ UNCHANGED <<policyVars, keepVars, ffVars, logVars, faultVars,
                 omp_generated_log, stages, omp_input, gen_pc, gen_order,
                 queues, tmp_queue, workers, omp_done_threads, reorder, ls_pc,
                 elements, current, omp_consumed, eos_pops, pushbacks,
                 fwd_count>>

\* ---- map, reduce and map_reduce ----
\* ff::ParallelFor and tbb::parallel_for run the body once for every index of
\* [0, sequence_size), each index in one worker, the indices of one worker in
\* ascending order, the workers concurrently; ff::ParallelForReduce gives
\* every worker a partial result that starts as the identity and calls the
\* final reduction for the partial result of each worker in turn once every
\* body has run.
MaxFFLen == 3
MaxFFDegree == 2

\* the identity argument of reduce and map_reduce
identity == 0

\* the combine_op argument of reduce and map_reduce
combine_op(a, b) ==
  IF combiner = "plus" THEN a + b ELSE IF a >= b THEN a ELSE b

\* the transform_op argument of map and map_reduce, for one or two sequences
transform_op(args) ==
  IF Len(args) = 1 THEN 2 * args[1] ELSE args[1] + args[2]

\* iterator.h: f(it1[i], it2[i], ...); tbb/map.h lines 60 and 91:
\* op(*(first+index), *(inputs+index)...)
apply_iterators_indexed(t, i) ==
  transform_op([k \in 1..Len(t) |-> t[k][i + 1]])

\* the ways parallel_for can give the indices 0..n-1 to nw workers
Splits(n, nw) == [0..(n - 1) -> 1..nw]

\* the next index worker w runs, or -1 when it has run all of its indices
NextIndex(w) ==
  LET todo == {i \in 0..(sequence_size - 1) : owner[i] = w /\ i \notin ff_done}
  IN IF todo = {} THEN -1
     ELSE CHOOSE i \in todo : \A j \in todo : i <= j

\* reduce lines 228-231: result starts as the identity, and so does the
\* partial result of each worker
StartReduce(seq) ==
  /\ first' = seq
  /\ result' = identity
  /\ value' = [w \in 1..concurrency_degree_ |-> identity]
  /\ merged' = 0
  /\ ff_done' = {}
  /\ owner' \in Splits(sequence_size, concurrency_degree_)
  /\ ff_pc' = "reduce"

\* map lines 214-215, or tbb::parallel_for of tbb/map.h: the output sequence
\* is the caller's, with one position past the end; nw workers
StartMap(nw) ==
  /\ first_out' = [i \in 0..sequence_size |-> 0]
  /\ writes' = [i \in 0..sequence_size |-> 0]
  /\ ff_done' = {}
  /\ owner' \in Splits(sequence_size, nw)
  /\ ff_pc' = "map"

\* parallel_execution_ff::map(firsts, first_out, sequence_size, transform_op)
ff_map ==
  /\ ff_pc = "idle"
  /\ ff_call' = "map"
  /\ StartMap(concurrency_degree_)
  /\ UNCHANGED <<policyVars, keepVars, ompVars, logVars, faultVars, combiner,
                 firsts, first, sequence_size, value, merged, result>>

\* map(parallel_execution_tbb &, first, last, first_out, op, inputs...)
tbb_map ==
  /\ ff_pc = "idle"
  /\ ff_call' = "tbb_map"
  /\ \E nw \in 1..MaxFFDegree : StartMap(nw)
  /\ UNCHANGED <<policyVars, keepVars, ompVars, logVars, faultVars, combiner,
                 firsts, first, sequence_size, value, merged, result>>

\* parallel_execution_ff::map_reduce, lines 249-250: partial_outs has
\* sequence_size value-initialised elements and map writes to it
ff_map_reduce ==
  /\ ff_pc = "idle"
  /\ ff_call' = "map_reduce"
  /\ StartMap(concurrency_degree_)
  /\ UNCHANGED <<policyVars, keepVars, ompVars, logVars, faultVars, combiner,
                 firsts, first, sequence_size, value, merged, result>>

\* parallel_execution_ff::reduce(first, sequence_size, identity, combine_op)
ff_reduce ==
  /\ ff_pc = "idle"
  /\ ff_call' = "reduce"
  /\ StartReduce(firsts[1])
  /\ UNCHANGED <<policyVars, keepVars, ompVars, logVars, faultVars, combiner,
                 firsts, sequence_size, first_out, writes>>

\* mutant of MapBody: the result is assigned to the position after delta
MapBodyNext(w) ==
  /\ ff_pc = "map"
  /\ NextIndex(w) # -1
  /\ LET delta == NextIndex(w) IN
       /\ first_out' = [first_out EXCEPT ![delta + 1] =
                          apply_iterators_indexed(firsts, delta)]
       /\ writes' = [writes EXCEPT ![delta + 1] = @ + 1]
       /\ ff_done' = ff_done \cup {delta}
  /\ UNCHANGED <<policyVars, keepVars, ompVars, logVars, faultVars, ff_call,
                 ff_pc, combiner, firsts, first, sequence_size, owner, value,
                 merged, result>>

\* the body of map, lines 216-218 (tbb/map.h lines 58-61 and 89-92), run by
\* worker w for its next index
MapBody(w) ==
  /\ ff_pc = "map"
  /\ NextIndex(w) # -1
  /\ LET delta == NextIndex(w) IN
       /\ first_out' = [first_out EXCEPT ![delta] =
                          apply_iterators_indexed(firsts, delta)]
       /\ writes' = [writes EXCEPT ![delta] = @ + 1]
       /\ ff_done' = ff_done \cup {delta}
  /\ UNCHANGED <<policyVars, keepVars, ompVars, logVars, faultVars, ff_call,
                 ff_pc, combiner, firsts, first, sequence_size, owner, value,
                 merged, result>>

\* what follows the parallel_for of map: map returns; in map_reduce, line 253
\* then calls reduce on partial_outs
AfterMap ==
  IF ff_call = "map_reduce"
    THEN /\ StartReduce([i \in 1..sequence_size |-> first_out[i - 1]])
         /\ UNCHANGED <<first_out, writes>>
    ELSE /\ ff_pc' = "returned"
         /\ UNCHANGED <<first, owner, ff_done, first_out, writes, value,
                        merged, result>>

\* mutant of MapReturn: map does not wait for the bodies of its parallel_for
MapReturnEarly ==
  /\ ff_pc = "map"
  /\ AfterMap
  /\ UNCHANGED <<policyVars, keepVars, ompVars, logVars, faultVars, ff_call,
                 combiner, firsts, sequence_size>>

\* parallel_for returns when every body has run (line 219)
MapReturn ==
  /\ ff_pc = "map"
  /\ ff_done = 0..(sequence_size - 1)
  /\ AfterMap
  /\ UNCHANGED <<policyVars, keepVars, ompVars, logVars, faultVars, ff_call,
                 combiner, firsts, sequence_size>>

\* the body of reduce, lines 232-234, run by worker w for its next index
ReduceBody(w) ==
  /\ ff_pc = "reduce"
  /\ NextIndex(w) # -1
  /\ LET delta == NextIndex(w) IN
       /\ value' = [value EXCEPT ![w] = combine_op(@, first[delta + 1])]
       /\ ff_done' = ff_done \cup {delta}
  /\ UNCHANGED <<policyVars, keepVars, ompVars, logVars, faultVars, ff_call,
                 ff_pc, combiner, firsts, first, sequence_size, owner,
                 first_out, writes, merged, result>>

\* mutant of FinalReduce: the partial result replaces the result
FinalReduceOverwrite ==
  /\ ff_pc = "reduce"
  /\ ff_done = 0..(sequence_size - 1)
  /\ merged < concurrency_degree_
  /\ result' = value[merged + 1]
  /\ merged' = merged + 1
  /\ UNCHANGED <<policyVars, keepVars, ompVars, logVars, faultVars, ff_call,
                 ff_pc, combiner, firsts, first, sequence_size, owner, ff_done,
                 first_out, writes, value>>

\* the final reduction, line 235, called with the result and the partial
\* result of the next worker: result = combine_op(a, b)
FinalReduce ==
  /\ ff_pc = "reduce"
  /\ ff_done = 0..(sequence_size - 1)
  /\ merged < concurrency_degree_
  /\ result' = combine_op(result, value[merged + 1])
  /\ merged' = merged + 1
  /\ UNCHANGED <<policyVars, keepVars, ompVars, logVars, faultVars, ff_call,
                 ff_pc, combiner, firsts, first, sequence_size, owner, ff_done,
                 first_out, writes, value>>

\* line 238: return result
ReduceReturn ==
  /\ ff_pc = "reduce"
  /\ ff_done = 0..(sequence_size - 1)
  /\ merged = concurrency_degree_
  /\ ff_pc' = "returned"
  /\ UNCHANGED <<policyVars, keepVars, ompVars, logVars, faultVars, ff_call,
                 combiner, firsts, first, sequence_size, owner, ff_done,
                 first_out, writes, value, merged, result>>

\* ---- initial states ----
OmpDegrees == 1..MaxOmpDegree

\* the stages a pipeline can start with when the values vals enter it
OneStage(vals) ==
  {FarmStage(d) : d \in OmpDegrees}
    \cup {FilterStage(d, p) : d \in OmpDegrees, p \in SUBSET vals}

\* the values that leave stage st when the values vals enter it
StageOut(st, vals) ==
  IF st.kind = "farm" THEN {Transform(v) : v \in vals} ELSE vals \cap st.pred

RECURSIVE StageConfigs(_, _)
\* the stage lists of length 1..n
StageConfigs(n, vals) ==
  IF n = 0 THEN {}
  ELSE {<<st>> : st \in OneStage(vals)}
         \cup UNION {{<<st>> \o rest :
                        rest \in StageConfigs(n - 1, StageOut(st, vals))} :
                     st \in OneStage(vals)}

\* no call of keep or discard has been made
KeepStart ==
  /\ call = "none"
  /\ keep_pred = {}
  /\ pc = "idle"
  /\ order = 0
  /\ eos_i = 0
  /\ generated_queue = <<>>
  /\ filtered_queue = <<>>
  /\ tasks = EmptyBag
  /\ consumer_pc = "none"
  /\ done_threads = 0
  /\ item_buffer = <<>>
  /\ c_order = 0
  /\ consumed = <<>>
  /\ eos_pushed = 0
  /\ last_step = NoStep
  /\ generated_log = <<>>

KeepIdle ==
  /\ input = <<>>
  /\ user_pred = {}
  /\ KeepStart

\* no call of pipeline has been made
OmpIdle ==
  /\ omp_pc = "idle"
  /\ gen_pc = "none"
  /\ gen_order = 0
  /\ queues = [s \in 1..(NStages + 1) |-> <<>>]
  /\ tmp_queue = [s \in StageIds |-> <<>>]
  /\ workers = [s \in StageIds |-> EmptyBag]
  /\ omp_done_threads = [s \in StageIds |-> 0]
  /\ reorder = [s \in StageIds |-> IdleReorder]
  /\ ls_pc = "none"
  /\ elements = <<>>
  /\ current = 0
  /\ omp_consumed = <<>>
  /\ eos_pops = [s \in StageIds |-> 0]
  /\ pushbacks = [s \in StageIds |-> 0]
  /\ fwd_count = [s \in StageIds |-> 0]
  /\ omp_generated_log = <<>>

\* no callable throws
NoRaise == [op |-> "none", at |-> 0]

NoFault ==
  /\ raises = NoRaise
  /\ terminated = FALSE

\* no call of map, reduce or map_reduce has been made
FFIdle ==
  /\ ff_call = "none"
  /\ ff_pc = "idle"
  /\ combiner = "plus"
  /\ firsts = <<>>
  /\ first = <<>>
  /\ sequence_size = 0
  /\ owner = <<>>
  /\ ff_done = {}
  /\ first_out = <<>>
  /\ writes = <<>>
  /\ value = <<>>
  /\ merged = 0
  /\ result = 0

\* the streams 1, 2, ..., n of at most len values
Inputs(len) == {[i \in 1..n |-> i] : n \in 0..len}

\* before a call of keep or discard on a policy constructed with one of the
\* degrees, ordered by default, for a stream of at most len values
KeepInit(degrees, len) ==
  /\ \E degree \in degrees : Construct(degree, TRUE)
  /\ input \in Inputs(len)
  /\ user_pred \in SUBSET Range(input)
  /\ KeepStart
  /\ stages = <<>>
  /\ omp_input = <<>>
  /\ OmpIdle
  /\ calls = <<>>
  /\ NoFault
  /\ FFIdle

\* the steps of the threads of one call of keep or discard
KeepStep ==
  \/ keep
  \/ discard
  \/ WorkerPop
  \/ WorkerFilter
  \/ WorkerEos
  \/ ConsumerPop
  \/ ConsumerDrain
  \/ Generate
  \/ PushEos
  \/ Join

\* native keep and discard
Init == KeepInit(DegreeValues, MaxLen)

Next ==
  \/ \E degree \in DegreeValues :
       set_concurrency_degree(degree) /\ UNCHANGED logVars
  \/ KeepStep

Spec == Init /\ [][Next]_vars

\* native keep and discard with two filter threads and up to five items
InitLong == KeepInit({LongDegree}, LongLen)

NextLong == KeepStep

SpecLong == InitLong /\ [][NextLong]_vars

\* the callables that can throw for the stream seq: a generate_op call, or
\* predicate_op or consume_op for a value
RaiseChoices(seq) ==
  {[op |-> "generate_op", at |-> k] : k \in 0..Len(seq)}
    \cup {[op |-> o, at |-> v] :
            o \in {"predicate_op", "consume_op"}, v \in Range(seq)}

\* native keep and discard with a callable that throws
InitThrow ==
  /\ \E degree \in DegreeValues : Construct(degree, TRUE)
  /\ input \in Inputs(MaxLen)
  /\ user_pred \in SUBSET Range(input)
  /\ KeepStart
  /\ stages = <<>>
  /\ omp_input = <<>>
  /\ OmpIdle
  /\ calls = <<>>
  /\ raises \in RaiseChoices(input)
  /\ terminated = FALSE
  /\ FFIdle

NextThrow == ThrowStep

SpecThrow == InitThrow /\ [][NextThrow]_vars

\* the input sequences of a call of map or map_reduce with n elements: the
\* sequence 1..n, alone or with the sequence 10, 20, ..., 10n
FFInputs(len) ==
  UNION {{<<[i \in 1..n |-> i]>>,
          <<[i \in 1..n |-> i], [i \in 1..n |-> 10 * i]>>} : n \in 0..len}

\* before a call of map, reduce or map_reduce
InitFF ==
  /\ \E degree \in 1..MaxFFDegree : Construct(degree, TRUE)
  /\ KeepIdle
  /\ stages = <<>>
  /\ omp_input = <<>>
  /\ OmpIdle
  /\ calls = <<>>
  /\ NoFault
  /\ ff_call = "none"
  /\ ff_pc = "idle"
  /\ combiner \in {"plus", "max"}
  /\ firsts \in FFInputs(MaxFFLen)
  /\ first = <<>>
  /\ sequence_size = Len(firsts[1])
  /\ owner = <<>>
  /\ ff_done = {}
  /\ first_out = <<>>
  /\ writes = <<>>
  /\ value = <<>>
  /\ merged = 0
  /\ result = 0

NextFF ==
  \/ ff_map
  \/ tbb_map
  \/ ff_reduce
  \/ ff_map_reduce
  \/ \E w \in 1..MaxFFDegree : MapBody(w)
  \/ MapReturn
  \/ \E w \in 1..MaxFFDegree : ReduceBody(w)
  \/ FinalReduce
  \/ ReduceReturn

SpecFF == InitFF /\ [][NextFF]_vars

\* native keep and discard with up to three filter threads and four items
InitWide == KeepInit(WideDegreeValues, WideLen)

NextWide ==
  \/ \E degree \in WideDegreeValues :
       set_concurrency_degree(degree) /\ UNCHANGED logVars
  \/ KeepStep

SpecWide == InitWide /\ [][NextWide]_vars

\* before a call of pipeline with a list of 1..n stages
OmpInit(ords, len, n) ==
  /\ \E ord \in ords : Construct(MaxOmpDegree, ord)
  /\ KeepIdle
  /\ omp_input \in Inputs(len)
  /\ stages \in StageConfigs(n, Range(omp_input))
  /\ OmpIdle
  /\ calls = <<>>
  /\ NoFault
  /\ FFIdle

\* the steps of the tasks of a pipeline of farm and filter stages that is not
\* ordered
UnorderedStep ==
  \/ pipeline
  \/ OmpGenerate
  \/ \E s \in StageIds : FarmPop(s)
  \/ \E s \in StageIds : FarmApply(s)
  \/ \E s \in StageIds : FarmPushBack(s)
  \/ \E s \in StageIds : FarmInc(s)
  \/ \E s \in StageIds : FarmTest(s)
  \/ \E s \in StageIds : FarmFwd(s)
  \/ \E s \in StageIds : FilterPop(s)
  \/ \E s \in StageIds : FilterApply(s)
  \/ \E s \in StageIds : FilterInc(s)
  \/ \E s \in StageIds : FilterTest(s)
  \/ \E s \in StageIds : FilterPushBack(s)
  \/ \E s \in StageIds : FilterFwd(s)
  \/ LastPopUnordered
  \/ OmpReturn

\* the steps that only an ordered pipeline takes
OrderedStep ==
  \/ \E s \in StageIds : ReorderPop(s)
  \/ \E s \in StageIds : ReorderDrain(s)
  \/ LastPopOrdered
  \/ LastDrain

\* the OpenMP pipeline of a generator, one farm or filter stage and a consumer,
\* ordered or not
InitOmp ==
  OmpInit(BOOLEAN, MaxOmpLen, 1)

NextOmp ==
  \/ enable_ordering /\ UNCHANGED logVars
  \/ disable_ordering /\ UNCHANGED logVars
  \/ UnorderedStep
  \/ OrderedStep

SpecOmp == InitOmp /\ [][NextOmp]_vars

\* the OpenMP pipeline of a generator, 1..MaxStages farm and filter stages and
\* a consumer, not ordered
InitChain ==
  OmpInit({FALSE}, MaxChainLen, MaxStages)

NextChain == UnorderedStep

SpecChain == InitChain /\ [][NextChain]_vars

\* the stages of a pipeline of transformer, farm and filter stages
AnyStage(vals) == OneStage(vals) \cup {TransformerStage}

AnyStageOut(st, vals) ==
  IF st.kind = "transformer" THEN {Transform(v) : v \in vals}
  ELSE StageOut(st, vals)

RECURSIVE AnyStageConfigs(_, _)
\* the stage lists of length 1..n
AnyStageConfigs(n, vals) ==
  IF n = 0 THEN {}
  ELSE {<<st>> : st \in AnyStage(vals)}
         \cup UNION {{<<st>> \o rest :
                        rest \in AnyStageConfigs(n - 1, AnyStageOut(st, vals))} :
                     st \in AnyStage(vals)}

\* before a call of pipeline, ordered or not, with one stage and a stream of
\* at most MaxOmpLen values or with 1..MaxStages stages and a stream of at most
\* MaxChainLen values
InitTerm ==
  /\ \E ord \in BOOLEAN : Construct(MaxOmpDegree, ord)
  /\ KeepIdle
  /\ \/ /\ omp_input \in Inputs(MaxOmpLen)
        /\ stages \in AnyStageConfigs(1, Range(omp_input))
     \/ /\ omp_input \in Inputs(MaxChainLen)
        /\ stages \in AnyStageConfigs(MaxStages, Range(omp_input))
  /\ OmpIdle
  /\ calls = <<>>
  /\ NoFault
  /\ FFIdle

\* the steps of the tasks of stage s
StageTasks(s) ==
  \/ FarmPop(s) \/ FarmApply(s) \/ FarmPushBack(s) \/ FarmInc(s)
  \/ FarmTest(s) \/ FarmFwd(s)
  \/ FilterPop(s) \/ FilterApply(s) \/ FilterInc(s) \/ FilterTest(s)
  \/ FilterPushBack(s) \/ FilterFwd(s)
  \/ TransformerPop(s) \/ TransformerApply(s) \/ TransformerFwd(s)

\* the steps of the reorder task of stage s
ReorderTask(s) == ReorderPop(s) \/ ReorderDrain(s)

\* the steps of the last stage, in the thread that called pipeline
LastStage == LastPopOrdered \/ LastDrain \/ LastPopUnordered

NextTerm ==
  \/ UnorderedStep
  \/ OrderedStep
  \/ \E s \in StageIds : TransformerPop(s)
  \/ \E s \in StageIds : TransformerApply(s)
  \/ \E s \in StageIds : TransformerFwd(s)

\* every task runs on a thread of its own: a task that can take a step takes
\* one. A step of a task of a stage stays possible until a task of that stage
\* takes a step, so the condition on the tasks of a stage follows from the
\* condition on each of them.
TaskFairness ==
  /\ WF_vars(OmpGenerate)
  /\ \A s \in 1..MaxStages : WF_vars(s \in StageIds /\ StageTasks(s))
  /\ \A s \in 1..MaxStages : WF_vars(s \in StageIds /\ ReorderTask(s))
  /\ WF_vars(LastStage)
  /\ WF_vars(OmpReturn)

SpecTerm == InitTerm /\ [][NextTerm]_vars /\ TaskFairness

\* a policy object and the calls of its mutators
InitPolicy ==
  /\ \/ \E degree \in DegreeValues, ord \in BOOLEAN : Constructed(degree, ord)
     \/ \E degree \in DegreeValues : ConstructedDefault(degree)
  /\ KeepIdle
  /\ stages = <<>>
  /\ omp_input = <<>>
  /\ OmpIdle
  /\ NoFault
  /\ FFIdle

NextPolicy ==
  \/ \E degree \in DegreeValues : CallSetDegree(degree)
  \/ CallEnable
  \/ CallDisable

SpecPolicy == InitPolicy /\ [][NextPolicy]_vars

\* native keep and discard, or the OpenMP pipeline with one stage
InitStreams == Init \/ InitOmp

NextStreams ==
  \/ KeepStep
  \/ UnorderedStep
  \/ OrderedStep

SpecStreams == InitStreams /\ [][NextStreams]_vars

\* ---- properties of native keep and discard ----

\* C1: when keep returns, consume_op has been called with exactly the generated
\* values predicate_op is true for, in generation order, once each
KeepDeliversFiltered ==
  (pc = "returned" /\ call = "keep") =>
    consumed = SelectValues(input, user_pred)

\* C3: for a concurrency degree of at least 1 a call of keep never comes to a
\* stop before it has returned: some thread can always take a step
KeepTerminates ==
  (concurrency_degree_ >= 1 /\ call # "none") =>
    (pc = "returned" \/ ENABLED Next)

EndedTasks == CopiesIn([pc |-> "done", item |-> Item(None, TERMINAL)], tasks)

HolesSkipped ==
  /\ Range(consumed) \subseteq keep_pred
  /\ (\A i \in 1..Len(last_step.released) :
        last_step.released[i].first = None) => last_step.called = <<>>

\* C9: when discard returns, consume_op has been called with exactly the
\* generated values the caller's predicate is false for, in generation order:
\* the rest of what keep delivers with the same predicate
DiscardDeliversRejected ==
  (pc = "returned" /\ call = "discard") =>
    /\ consumed = SelectValues(input, Range(input) \ user_pred)
    /\ Range(consumed) \cap Range(SelectValues(input, user_pred)) = {}
    /\ Range(consumed) \cup Range(SelectValues(input, user_pred)) = Range(input)

\* C10: with a concurrency degree below 1 no filter thread and no consumer
\* thread is ever created and nothing is pushed to a queue
RejectBelowOne ==
  concurrency_degree_ < 1 =>
    /\ tasks = EmptyBag
    /\ consumer_pc = "none"
    /\ generated_queue = <<>>
    /\ filtered_queue = <<>>

\* ---- properties of the OpenMP pipeline ----

RECURSIVE Through(_, _)
\* the values that leave the last of the stages sts when the values of seq
\* enter the first, in the order of seq
Through(sts, seq) ==
  IF sts = <<>> THEN seq
  ELSE Through(Tail(sts),
         IF Head(sts).kind = "farm"
           THEN [i \in 1..Len(seq) |-> Transform(seq[i])]
           ELSE SelectValues(seq, Head(sts).pred))

IsPrefix(a, b) == Len(a) <= Len(b) /\ a = SubSeq(b, 1, Len(a))

RECURSIVE SeqToBag(_)
SeqToBag(seq) ==
  IF seq = <<>> THEN EmptyBag ELSE SetToBag({Head(seq)}) (+) SeqToBag(Tail(seq))

StageEnded(s) == \A w \in BagToSet(workers[s]) : w.pc = "done"

\* C2: an ordered pipeline of a generator, one farm and a consumer calls the
\* consumer with f(x0), f(x1), ... in that order and, when the last stage has
\* ended, with all of them
FarmOrderFidelity ==
  (ordering_ /\ NStages = 1 /\ stages[1].kind = "farm") =>
    /\ IsPrefix(omp_consumed, Through(stages, omp_input))
    /\ ls_pc = "done" => omp_consumed = Through(stages, omp_input)

FarmOrderFidelityWitness ==
  /\ ordering_ /\ NStages = 1 /\ stages[1].kind = "farm"
  /\ stages[1].degree >= 2
  /\ omp_pc = "returned"
  /\ Len(omp_consumed) >= 3

\* C4: the tasks of a farm stage push exactly one end-of-stream item to the
\* stage's output queue
FarmOneSentinel ==
  \A s \in StageIds : stages[s].kind = "farm" =>
    /\ fwd_count[s] <= 1
    /\ (omp_pc # "idle" /\ StageEnded(s)) => fwd_count[s] = 1

\* stage s is a filter stage whose input queue receives exactly one item with
\* an empty payload: only filter stages are before it
FedOnce(s) == \A t \in 1..s : stages[t].kind = "filter"

FwdTasks(s) ==
  {w \in BagToSet(workers[s]) : w.pc = "fwd"}

\* C6: in a filter stage whose input receives one end-of-stream item, each of
\* the W tasks pops it once, all but one push it back and push no sentinel
\* downstream, and the one that finds done_threads equal to W pushes one
FilterSentinelProtocol ==
  \A s \in StageIds : FedOnce(s) =>
    /\ eos_pops[s] <= stages[s].degree
    /\ pushbacks[s] <= stages[s].degree - 1
    /\ fwd_count[s] <= 1
    /\ FwdTasks(s) # {} => omp_done_threads[s] = stages[s].degree
    /\ (omp_pc # "idle" /\ StageEnded(s)) =>
         /\ eos_pops[s] = stages[s].degree
         /\ pushbacks[s] = stages[s].degree - 1
         /\ fwd_count[s] = 1

FilterSentinelProtocolWitness ==
  /\ omp_pc = "returned"
  /\ \E o \in BOOLEAN : \E s \in StageIds :
       /\ ordering_ = o
       /\ FedOnce(s)
       /\ stages[s].degree >= 2
       /\ pushbacks[s] >= 1
       /\ fwd_count[s] = 1

\* C7: a pipeline that is not ordered calls the consumer with values of the
\* expected multiset only and, when the last stage has ended, with all of it
UnorderedCompleteness ==
  ~ordering_ =>
    /\ SeqToBag(omp_consumed) \sqsubseteq SeqToBag(Through(stages, omp_input))
    /\ ls_pc = "done" =>
         SeqToBag(omp_consumed) = SeqToBag(Through(stages, omp_input))

UnorderedCompletenessWitness ==
  /\ ~ordering_
  /\ omp_pc = "returned"
  /\ NStages = 2
  /\ stages[1].kind = "farm" /\ stages[1].degree >= 2
  /\ stages[2].kind = "filter" /\ stages[2].degree >= 2
  /\ Len(omp_consumed) >= 2
  /\ omp_consumed # Through(stages, omp_input)

\* C11: an error raised by generate_op, predicate_op or consume_op never ends
\* the process: it leaves keep as an error of the call, with every filter
\* thread and the consumer thread joined
ErrorsSurfaceAfterJoin ==
  terminated =>
    /\ pc = "raised"
    /\ \A w \in BagToSet(tasks) : w.pc = "done"
    /\ consumer_pc = "done"

\* ---- properties of map, reduce and map_reduce ----

\* a split that gives neighbouring indices to different workers
Interleaved ==
  /\ sequence_size = MaxFFLen
  /\ \A i \in 1..(sequence_size - 1) : owner[i] # owner[i - 1]

\* C12: reduce over 1..N with identity 0 and combiner + returns N*(N+1)/2,
\* the identity for N = 0, whatever the concurrency degree and the split of
\* the indices among the workers
ReduceIsSum ==
  (ff_call = "reduce" /\ ff_pc = "returned" /\ combiner = "plus") =>
    /\ first = [i \in 1..sequence_size |-> i]
    /\ result = (sequence_size * (sequence_size + 1)) \div 2

ReduceIsSumWitness ==
  /\ ff_call = "reduce" /\ ff_pc = "returned" /\ combiner = "plus"
  /\ concurrency_degree_ = 2
  /\ Interleaved
  /\ result = 6

\* the sequence map_reduce has to reduce: transform_op of the i-th elements
Mapped ==
  [i \in 1..sequence_size |-> apply_iterators_indexed(firsts, i - 1)]

RECURSIVE Fold(_, _)
\* seq combined into acc from the left
Fold(acc, seq) ==
  IF seq = <<>> THEN acc ELSE Fold(combine_op(acc, Head(seq)), Tail(seq))

\* C13: map_reduce returns what reduce returns for the sequence of the n
\* transformed elements, and every one of them is written before the reduce
\* phase reads any
MapReduceIsReduceOfMap ==
  ff_call = "map_reduce" =>
    /\ ff_pc \in {"reduce", "returned"} =>
         /\ Len(first) = sequence_size
         /\ first = Mapped
         /\ \A i \in 0..(sequence_size - 1) : writes[i] = 1
    /\ ff_pc = "returned" => result = Fold(identity, Mapped)

MapReduceIsReduceOfMapWitness ==
  /\ ff_call = "map_reduce" /\ ff_pc = "returned"
  /\ concurrency_degree_ = 2
  /\ Len(firsts) = 2
  /\ Interleaved
  /\ result = Fold(identity, Mapped)
  /\ result > identity

\* C19: map assigns op of the i-th input elements to every output position
\* i of [0, n), once, assigns to no other position and leaves the inputs as
\* they were, for every split of the indices among the tasks
MapWritesOnce ==
  ff_call \in {"map", "tbb_map"} =>
    /\ \A i \in 0..(sequence_size - 1) : writes[i] <= 1
    /\ writes[sequence_size] = 0
    /\ firsts \in FFInputs(sequence_size) /\ Len(firsts[1]) = sequence_size
    /\ ff_pc = "returned" =>
         \A i \in 0..(sequence_size - 1) :
           /\ writes[i] = 1
           /\ first_out[i] = apply_iterators_indexed(firsts, i)

MapWritesOnceWitness ==
  /\ ff_call = "tbb_map" /\ ff_pc = "returned"
  /\ Len(firsts) = 2
  /\ Interleaved
  /\ first_out[2] = 33

\* ---- more properties of native keep ----

\* C14: when every generated item keeps its payload (the consumer is fed the
\* tags 0..K-1 with a payload, in the order the filter threads push them) and
\* the consumer thread has ended, consume_op was called K times, with the
\* payloads in ascending tag order
ReorderReconstructs ==
  (consumer_pc = "done" /\ keep_pred = Range(input)) => consumed = input

\* C15: the consumer's item_buffer never holds more than concurrency_degree
\* items
BufferBounded == Len(item_buffer) <= concurrency_degree_

\* ---- properties of the generator loops ----

\* the items of q that have a payload
Present(q) == SelectSeq(q, LAMBDA it : it.first # None)

\* the items of q that have a payload have tags 0, 1, 2, ... in this order
TagsCount(q) == \A j \in 1..Len(Present(q)) : Present(q)[j].second = j - 1

\* no two items of q that have a payload have the same tag
TagsDiffer(q) ==
  \A i, j \in 1..Len(q) :
    (i # j /\ q[i].first # None /\ q[j].first # None) =>
      q[i].second # q[j].second

\* C16: the items with a payload that a generator loop pushes have the tags
\* 0, 1, ..., N-1 in push order, and no queue or buffer of keep or of the
\* pipeline ever holds two items with a payload and the same tag
GeneratorTags ==
  /\ TagsCount(generated_log)
  /\ TagsCount(omp_generated_log)
  /\ Payloads(generated_log) = SubSeq(input, 1, Len(Present(generated_log)))
  /\ Payloads(omp_generated_log) =
       SubSeq(omp_input, 1, Len(Present(omp_generated_log)))
  /\ pc \in {"eos", "join", "returned"} =>
       Len(Present(generated_log)) = Len(input)
  /\ gen_pc = "done" => Len(Present(omp_generated_log)) = Len(omp_input)
  /\ TagsDiffer(generated_queue)
  /\ TagsDiffer(filtered_queue)
  /\ TagsDiffer(item_buffer)
  /\ TagsDiffer(elements)
  /\ \A s \in 1..(NStages + 1) : TagsDiffer(queues[s])
  /\ \A s \in StageIds :
       TagsDiffer(tmp_queue[s]) /\ TagsDiffer(reorder[s].elements)

GeneratorTagsWitness ==
  /\ omp_pc = "returned"
  /\ ordering_
  /\ NStages = 1 /\ stages[1].kind = "filter" /\ stages[1].degree = 2
  /\ Len(Present(omp_generated_log)) = MaxOmpLen
  /\ Len(omp_consumed) = MaxOmpLen - 1

\* the items of q without a payload
Absent(q) == SelectSeq(q, LAMBDA it : it.first = None)

\* C17: a generator loop pushes one item without a payload, when generate_op
\* returns the empty value, and every item without a payload it pushes has
\* the tag -1
GeneratorEndsWithSentinel ==
  /\ \A q \in {generated_log, omp_generated_log} :
       /\ \A i \in 1..Len(Absent(q)) : Absent(q)[i].second = TERMINAL
       /\ Len(Absent(q)) <= 1
  /\ pc \in {"join", "returned"} => Len(Absent(generated_log)) = 1
  /\ gen_pc = "done" => Len(Absent(omp_generated_log)) = 1

\* ---- properties of the execution policy ----

RECURSIVE LastDegree(_)
\* the degree given by the most recent call that sets the degree
LastDegree(log) ==
  LET c == log[Len(log)] IN
    IF c.op \in {"construct", "construct_degree", "set_concurrency_degree"}
      THEN c.degree
      ELSE LastDegree(SubSeq(log, 1, Len(log) - 1))

RECURSIVE LastOrder(_)
\* the ordering given by the most recent call that sets the ordering; true
\* for a constructor call without it
LastOrder(log) ==
  LET c == log[Len(log)] IN
    IF c.op = "construct" THEN c.order
    ELSE IF c.op \in {"construct_degree", "enable_ordering"} THEN TRUE
    ELSE IF c.op = "disable_ordering" THEN FALSE
    ELSE LastOrder(SubSeq(log, 1, Len(log) - 1))

\* C18: after any sequence of constructor and mutator calls
\* concurrency_degree() returns the degree of the most recent call that set
\* it and is_ordered() the ordering of the most recent call that set it,
\* true when the constructor was called without an ordering
AccessorsRoundTrip ==
  calls # <<>> =>
    /\ concurrency_degree = LastDegree(calls)
    /\ is_ordered = LastOrder(calls)

AccessorsRoundTripWitness ==
  /\ Len(calls) = MaxCalls + 1
  /\ calls[1].op = "construct_degree"
  /\ calls[2].op = "disable_ordering"
  /\ calls[3].op = "set_concurrency_degree"
  /\ calls[4].op = "set_concurrency_degree"
  /\ concurrency_degree # calls[1].degree
  /\ concurrency_degree # calls[3].degree
  /\ ~is_ordered

\* ---- termination of the OpenMP pipeline ----

\* C20: when every task that can take a step takes one, a call of pipeline
\* with a finite stream and transformer, farm and filter stages, ordered or
\* not, returns, and on return the generator task, every task of every stage,
\* every reorder task and the last stage have finished
PipelineTerminates ==
  /\ (omp_pc = "running") ~> (omp_pc = "returned")
  /\ [](omp_pc = "returned" =>
          /\ gen_pc = "done"
          /\ ls_pc = "done"
          /\ \A s \in StageIds :
               /\ StageEnded(s)
               /\ reorder[s].pc \in {"none", "done"}
               /\ reorder[s].elements = <<>>
          /\ elements = <<>>)

PipelineTerminatesWitness ==
  /\ omp_pc = "returned"
  /\ ordering_
  /\ NStages = MaxStages
  /\ Len(omp_input) = MaxChainLen
  /\ stages[1].kind = "filter" /\ stages[1].degree = MaxOmpDegree
  /\ stages[2].kind = "farm" /\ stages[2].degree = MaxOmpDegree
  /\ reorder[1].pc = "done"
  /\ Len(omp_consumed) = MaxChainLen

\* ---- properties of the reorder buffers ----

\* no item of buf has the tag ord
NoneDue(buf, ord) == \A i \in 1..Len(buf) : buf[i].second # ord

\* C21: when the keep consumer, the ordered last stage of the pipeline or the
\* reorder task of an ordered filter stage has handled a received item and is
\* about to pop the next one, its buffer holds no item whose tag is the tag it
\* expects next
CascadingRelease ==
  /\ consumer_pc = "pop" => NoneDue(item_buffer, c_order)
  /\ (ls_pc = "pop" /\ ordering_) => NoneDue(elements, current)
  /\ \A s \in StageIds :
       reorder[s].pc = "pop" => NoneDue(reorder[s].elements, reorder[s].current)

\* C22: in keep, whenever the consumer is about to pop from filtered_queue
\* every item of item_buffer has a tag that is not below the consumer's order;
\* order never decreases and never exceeds the number of values generated
BufferContent ==
  /\ [](consumer_pc = "pop" =>
          \A i \in 1..Len(item_buffer) : item_buffer[i].second >= c_order)
  /\ [][c_order' >= c_order]_vars
  /\ [](c_order <= Len(Present(generated_log)))

BufferContentWitness ==
  /\ consumer_pc = "pop"
  /\ item_buffer # <<>>
  /\ c_order >= 1
  /\ c_order < Len(Present(generated_log))

\* C23: in keep, when the consumer thread has finished, after the last
\* end-of-stream item and the final loop, item_buffer is empty and the
\* consumer's order is the number of values generated
BufferDrained ==
  consumer_pc = "done" =>
    /\ item_buffer = <<>>
    /\ c_order = Len(input)
    /\ c_order = Len(Present(generated_log))

BufferDrainedWitness ==
  /\ consumer_pc = "done"
  /\ Len(last_step.released) >= 2
  /\ item_buffer = <<>>
  /\ c_order = Len(input)
  /\ Len(input) >= MaxLen

\* ---- properties of the stages of the OpenMP pipeline ----

RECURSIVE PassingFrom(_, _, _)
\* the generated values of the tags lo..hi-1 that lie in p, in tag order
PassingFrom(lo, hi, p) ==
  IF lo >= hi THEN <<>>
  ELSE (IF omp_input[lo + 1] \in p THEN <<omp_input[lo + 1]>> ELSE <<>>)
         \o PassingFrom(lo + 1, hi, p)

\* the items a step appends to the queue q
Appended(q, q2) == SubSeq(q2, Len(q) + 1, Len(q2))

\* C24: in an ordered pipeline whose first stage is a filter, fed with the
\* tags 0..N-1, every step of the reorder task pushes to output_queue the
\* values of the tags it has passed that satisfy the predicate, in tag order,
\* tagged with the next numbers 0, 1, 2, ...; it pushes no hole, no other
\* task pushes a value or a hole to output_queue, and when the task has
\* finished it has passed all N tags and pushed one end item
OrderedFilterOutput ==
  /\ [][(NStages >= 1 /\ stages[1].kind = "filter" /\ ordering_
          /\ reorder[1].pc # "none") =>
         LET r == reorder[1]
             r2 == reorder'[1]
             pushed == Appended(queues[2], queues'[2])
             vals == PassingFrom(r.current, r2.current, stages[1].pred)
         IN IF r2 = r
              THEN \A i \in 1..Len(pushed) : IsEos(pushed[i])
              ELSE /\ r2.current >= r.current
                   /\ r2.order = r.order + Len(vals)
                   /\ pushed =
                        [k \in 1..Len(vals) |-> Item(vals[k], r.order + k - 1)]
                          \o (IF r2.pc = "done" THEN <<Item(None, -1)>>
                              ELSE <<>>)]_vars
  /\ []((NStages >= 1 /\ stages[1].kind = "filter" /\ ordering_
          /\ reorder[1].pc # "none") =>
         /\ reorder[1].order =
              Len(PassingFrom(0, reorder[1].current, stages[1].pred))
         /\ reorder[1].pc = "done" =>
              /\ reorder[1].current = Len(omp_input)
              /\ reorder[1].elements = <<>>)

OrderedFilterOutputWitness ==
  /\ ordering_
  /\ omp_input = <<1, 2, 3>>
  /\ stages = <<FilterStage(MaxOmpDegree, {1, 3})>>
  /\ reorder[1].pc = "done"
  /\ reorder[1].current = 3
  /\ reorder[1].order = 2
  /\ omp_consumed = <<1, 3>>

\* the state of the one task of a transformer stage
TransformerTask(ws) == CHOOSE w \in BagToSet(ws) : TRUE

\* what a step of the task of the transformer stage s pops and pushes
TransformerStepOk(s) ==
  LET w == TransformerTask(workers[s])
      w2 == TransformerTask(workers'[s])
      pushed == Appended(queues[s + 1], queues'[s + 1])
  IN IF w2 = w
       THEN \A i \in 1..Len(pushed) : IsEos(pushed[i])
     ELSE IF w.pc = "pop"
       THEN /\ w2.item = Head(queues[s])
            /\ queues'[s] = Tail(queues[s])
            /\ w2.pc = IF w2.item.first # None THEN "apply" ELSE "fwd"
            /\ pushed = <<>>
     ELSE IF w.pc = "apply"
       THEN /\ pushed = <<Item(Transform(w.item.first), w.item.second)>>
            /\ w2.pc = "pop"
            /\ queues'[s] = queues[s]
     ELSE /\ w.pc = "fwd"
          /\ pushed = <<Item(None, -1)>>
          /\ w2.pc = "done"
          /\ fwd_count[s] = 0 /\ fwd_count'[s] = 1
          /\ queues'[s] = queues[s]

\* the queue q holds transformed values of the stream with their tags, in
\* tag order without a gap, and behind them end items only
TransformedInOrder(q) ==
  LET data == Present(q) IN
    /\ q = data \o Absent(q)
    /\ \A j \in 1..Len(data) :
         /\ data[j].second \in 0..(Len(omp_input) - 1)
         /\ data[j].first = Transform(omp_input[data[j].second + 1])
         /\ j > 1 => data[j].second = data[j - 1].second + 1
    /\ \A j \in 1..Len(Absent(q)) : IsEos(Absent(q)[j])

TagCount(q, t) == Len(SelectSeq(q, LAMBDA it : it.second = t))

\* the number of filter threads that hold the item of tag t between its pop
\* and the push of its result
Holding(t) ==
  BagCardinality([w \in {v \in BagToSet(tasks) :
                           v.pc = "filter" /\ v.item.second = t}
                    |-> CopiesIn(w, tasks)])

\* what a filter thread pushes for the value of tag t
Filtered(t) ==
  Item(IF input[t + 1] \in keep_pred THEN input[t + 1] ELSE None, t)

\* C26: in keep every generated value is at one place at any time: in
\* generated_queue, held by one filter thread that popped it and has not yet
\* pushed, or pushed once to filtered_queue, where it is waiting, buffered by
\* the consumer or released by it; what was pushed for it is the value when
\* the predicate is true for it and a hole otherwise, and nothing with another
\* tag than 0..N-1 or -1 is pushed to filtered_queue
ExactlyOnce ==
  LET generated == Len(Present(generated_log)) IN
    /\ \A t \in 0..(generated - 1) :
         /\ TagCount(Present(generated_queue), t) + Holding(t)
              + TagCount(filtered_queue, t) + TagCount(item_buffer, t)
              + (IF t < c_order THEN 1 ELSE 0) = 1
         /\ \A i \in 1..Len(filtered_queue) :
              filtered_queue[i].second = t => filtered_queue[i] = Filtered(t)
         /\ \A i \in 1..Len(item_buffer) :
              item_buffer[i].second = t => item_buffer[i] = Filtered(t)
         /\ \A w \in BagToSet(tasks) :
              (w.pc = "filter" /\ w.item.second = t) =>
                w.item = Item(input[t + 1], t)
    /\ \A i \in 1..Len(filtered_queue) :
         filtered_queue[i].second \in (0..(generated - 1)) \cup {-1}
    /\ \A i \in 1..Len(item_buffer) :
         item_buffer[i].second \in 0..(generated - 1)
    /\ \A w \in BagToSet(tasks) :
         w.pc = "filter" => w.item.second \in 0..(generated - 1)
    /\ c_order <= generated

ExactlyOnceWitness ==
  /\ Len(input) = MaxLen
  /\ Holding(1) = 1
  /\ Holding(2) = 1
  /\ TagCount(filtered_queue, 0) = 1
  /\ Filtered(0).first = None

\* C27: the keep consumer has left its receive loop only when it has popped
\* the end-of-stream item of each of the concurrency_degree-1 filter threads;
\* then every filter thread has ended, every value or hole pushed to
\* filtered_queue has been popped, all N tags are buffered or released, and
\* no step pushes to filtered_queue any more
ConsumerLeavesLast ==
  /\ [](consumer_pc \in {"drain", "done"} =>
          /\ done_threads = concurrency_degree_ - 1
          /\ eos_pushed = concurrency_degree_ - 1
          /\ \A w \in BagToSet(tasks) : w.pc = "done"
          /\ BagCardinality(tasks) = concurrency_degree_ - 1
          /\ filtered_queue = <<>>
          /\ \A t \in 0..(Len(input) - 1) :
               TagCount(item_buffer, t) + (IF t < c_order THEN 1 ELSE 0) = 1)
  /\ [][(consumer_pc \in {"drain", "done"}) =>
          (filtered_queue' = filtered_queue)]_vars

ConsumerLeavesLastWitness ==
  /\ consumer_pc = "drain"
  /\ concurrency_degree_ = MaxDegree
  /\ Len(input) = MaxLen
  /\ done_threads = MaxDegree - 1
  /\ Len(consumed) >= 1

\* the queue the tasks of stage s push their results to: tmp_queue for an
\* ordered filter stage, the input queue of the next stage otherwise
Downstream(s, qs, tq) ==
  IF stages[s].kind = "filter" /\ ordering_ THEN tq[s] ELSE qs[s + 1]

\* C28: in a farm stage and in a filter stage, ordered or not, once a task of
\* the stage has pushed an (empty, -1) item to the queue the tasks push their
\* results to, only (empty, -1) items are pushed to that queue: every task of
\* the stage has left its loop before the first of these items is pushed
NoDataAfterSentinel ==
  /\ [][\A s \in StageIds :
          (stages[s].kind \in {"farm", "filter"} /\ fwd_count[s] > 0) =>
            LET pushed == Appended(Downstream(s, queues, tmp_queue),
                                   Downstream(s, queues', tmp_queue'))
            IN \A i \in 1..Len(pushed) : IsEos(pushed[i])]_vars
  /\ [](\A s \in StageIds :
          (stages[s].kind \in {"farm", "filter"} /\ fwd_count[s] > 0) =>
            /\ omp_done_threads[s] = stages[s].degree
            /\ \A w \in BagToSet(workers[s]) :
                 w.pc \in {"test", "fwd", "pushback", "done"})

NoDataAfterSentinelWitness ==
  /\ omp_pc = "returned"
  /\ NStages = MaxStages
  /\ stages[1].kind = "farm" /\ stages[1].degree = MaxOmpDegree
  /\ stages[2].kind = "filter" /\ stages[2].degree = MaxOmpDegree
  /\ fwd_count[1] = 2
  /\ fwd_count[2] >= 1
  /\ Len(omp_consumed) = MaxChainLen

\* C29: when keep has returned filtered_queue is empty and generated_queue
\* holds one item, an (empty, -1) item that no filter thread popped: the
\* generator pushed concurrency_degree items without a payload and each of
\* the concurrency_degree-1 filter threads popped one
QueuesAtReturn ==
  pc = "returned" =>
    /\ filtered_queue = <<>>
    /\ generated_queue = <<Item(None, -1)>>
    /\ Len(Absent(generated_log)) = concurrency_degree_
    /\ BagCardinality(tasks) = concurrency_degree_ - 1

QueuesAtReturnWitness ==
  /\ pc = "returned"
  /\ concurrency_degree_ = MaxDegree
  /\ Len(input) = MaxLen
  /\ generated_queue = <<Item(None, -1)>>
  /\ filtered_queue = <<>>

\* ---- the iterator tuple of apply_iterators_indexed ----

\* iterator.h, iterators_next(t, n): every iterator of the tuple n steps
\* further; an iterator is the sequence of the elements from its position on
iterators_next(t, n) ==
  [k \in 1..Len(t) |-> SubSeq(t[k], n + 1, Len(t[k]))]

\* a step in which the body of parallel_execution_ff::map returns from its
\* call apply_iterators_indexed(transform_op, firsts, delta)
IndexedCallReturns ==
  /\ ff_call \in {"map", "map_reduce"}
  /\ ff_pc = "map" /\ ff_pc' = "map"
  /\ ff_done' # ff_done

\* the call was made for index delta: transform_op was invoked once, with the
\* elements at index delta of every iterator, and what it returned is what
\* the call returned (the value line 217 assigns)
IndexedCall(delta) ==
  /\ ff_done' = ff_done \cup {delta}
  /\ delta \notin ff_done
  /\ writes' = [writes EXCEPT ![delta] = @ + 1]
  /\ first_out'[delta] =
       transform_op([k \in 1..Len(firsts) |-> firsts[k][delta + 1]])

\* what the code does with the tuple: std::get<I>(t)[i] reads, so every
\* iterator of the tuple is where it was when the call returns
IndexedApplyKeepsIterators ==
  [][IndexedCallReturns =>
       \E delta \in 0..(sequence_size - 1) :
         IndexedCall(delta) /\ firsts' = firsts]_vars

\* C30: apply_iterators_indexed(f, t, i) invokes f exactly once with the
\* elements at index i of every iterator of the tuple t and returns the
\* result of f, and every iterator of t has been incremented when it returns
IndexedApplyIncrements ==
  [][IndexedCallReturns =>
       \E delta \in 0..(sequence_size - 1) :
         IndexedCall(delta) /\ firsts' = iterators_next(firsts, 1)]_vars

====
